---------------------------- MODULE Spec2Model ----------------------------
(***************************************************************************)
(* Model of the WhatsApp auto-reply bot of src/index.js: the two module    *)
(* globals (client, qrCodeString), the listeners that                      *)
(* initializeWhatsAppClient attaches to every client it constructs, the    *)
(* asynchronous `disconnected` handler (destroy, 5 s delay, recreation),   *)
(* the reply engine getBotResponse and the three HTTP routes.              *)
(*                                                                         *)
(* The whatsapp-web.js Client is an external library.  It is modelled as   *)
(* an environment: every handle that was constructed and has not been      *)
(* destroyed successfully may emit the events its phase allows, and its    *)
(* promises (initialize, destroy) may resolve or reject.  `info` is        *)
(* present exactly while the handle is authenticated (comment at           *)
(* src/index.js:144).                                                      *)
(***************************************************************************)
EXTENDS Naturals, Sequences, FiniteSets

VARIABLES
    client,        \* src/index.js:12  the global handle, 0 is null
    qrCodeString,  \* src/index.js:11  the stored QR payload, NoQr is null
    phase,         \* library-side phase of every handle
    recs,          \* `disconnected` handlers suspended at an await: the
                   \* handle that emitted the event, the handle destroy()
                   \* was called on, and whether destroy() threw
    req,           \* the HTTP handler suspended in qrcodeLib.toDataURL, if any
    obs            \* what the last step did (the event delivered, the
                   \* response sent, the calls made)

vars == <<client, qrCodeString, phase, recs, req, obs>>

----------------------------------------------------------------------------
(* Bounds *)

\* handles that are ever constructed (the first one and every recreation)
MaxHandles == 3

\* fragments concatenated to build an input of the reply engine
MaxFrags == 2

Handles == 1..MaxHandles

NoQr == "null"
Payloads == {"qrA", "qrB"}
Senders == {"alice@c.us"}
Times == {"10:15:00 am", "11:45:30 pm"}
None == [pc |-> "idle"]

----------------------------------------------------------------------------
(* Strings as sequences of characters *)

UpperCase == <<"A","B","C","D","E","F","G","H","I","J","K","L","M",
               "N","O","P","Q","R","S","T","U","V","W","X","Y","Z">>
LowerCase == <<"a","b","c","d","e","f","g","h","i","j","k","l","m",
               "n","o","p","q","r","s","t","u","v","w","x","y","z">>
WhiteSpace == {" ", "\t", "\n"}

\* String.prototype.toLowerCase
toLowerCase(s) ==
    [i \in 1..Len(s) |->
        IF \E k \in 1..26 : UpperCase[k] = s[i]
        THEN LowerCase[CHOOSE k \in 1..26 : UpperCase[k] = s[i]]
        ELSE s[i]]

\* String.prototype.trim
trim(s) ==
    LET keep == {i \in 1..Len(s) : s[i] \notin WhiteSpace}
    IN  IF keep = {} THEN <<>>
        ELSE LET lo == CHOOSE i \in keep : \A j \in keep : i <= j
                 hi == CHOOSE i \in keep : \A j \in keep : j <= i
             IN  SubSeq(s, lo, hi)

\* String.prototype.includes
includes(s, sub) ==
    /\ Len(sub) <= Len(s)
    /\ \E i \in 0..(Len(s) - Len(sub)) : SubSeq(s, i + 1, i + Len(sub)) = sub

S_hi == <<"h","i">>
S_hello == <<"h","e","l","l","o">>
S_status == <<"!","s","t","a","t","u","s">>
S_online == <<"o","n","l","i","n","e">>
S_time == <<"!","t","i","m","e">>
S_thanks == <<"t","h","a","n","k","s">>
S_thank_you == <<"t","h","a","n","k"," ","y","o","u">>
S_help == <<"!","h","e","l","p">>

----------------------------------------------------------------------------
(* The reply engine *)

R_GREETING == "Hello! I am a general WhatsApp bot. Send me !help to see what I can do."
R_STATUS == "I am online and running on the Render server."
R_TIME == "The current server time is: ${time} (IST)."
R_THANKS == "You're welcome! Happy to assist."
R_HELP == "Available Commands:\n\n- *Hi / Hello*: A friendly greeting.\n- *!status*: Check if the bot is running.\n- *!time*: Get the current server time.\n- *!help*: Show this list."
R_FALLBACK == "I received your message, but I only understand specific commands. Can you send *!help*?"

Static(t) == [text |-> t, time |-> "-"]

\* the rules with the acknowledgment tested before the status
getBotResponse_ThanksFirst(message, now) ==
    LET text == trim(toLowerCase(message))
    IN  IF text = S_hi \/ text = S_hello THEN Static(R_GREETING)
        ELSE IF includes(text, S_thanks) \/ includes(text, S_thank_you)
             THEN Static(R_THANKS)
        ELSE IF text = S_status \/ includes(text, S_online) THEN Static(R_STATUS)
        ELSE IF text = S_time THEN [text |-> R_TIME, time |-> now]
        ELSE IF text = S_help THEN Static(R_HELP)
        ELSE Static(R_FALLBACK)

\* the rules applied to the lower-cased text without trimming it
getBotResponse_NoTrim(message, now) ==
    LET text == toLowerCase(message)
    IN  IF text = S_hi \/ text = S_hello THEN Static(R_GREETING)
        ELSE IF text = S_status \/ includes(text, S_online) THEN Static(R_STATUS)
        ELSE IF text = S_time THEN [text |-> R_TIME, time |-> now]
        ELSE IF includes(text, S_thanks) \/ includes(text, S_thank_you)
             THEN Static(R_THANKS)
        ELSE IF text = S_help THEN Static(R_HELP)
        ELSE Static(R_FALLBACK)

\* getBotResponse(message), evaluated when the clock reads `now`
getBotResponse(message, now) ==
    LET text == trim(toLowerCase(message))
    IN  IF text = S_hi \/ text = S_hello THEN Static(R_GREETING)
        ELSE IF text = S_status \/ includes(text, S_online) THEN Static(R_STATUS)
        ELSE IF text = S_time THEN [text |-> R_TIME, time |-> now]
        ELSE IF includes(text, S_thanks) \/ includes(text, S_thank_you)
             THEN Static(R_THANKS)
        ELSE IF text = S_help THEN Static(R_HELP)
        ELSE Static(R_FALLBACK)

----------------------------------------------------------------------------
(* The session *)

Phases == {"none", "unauth", "ready", "disc", "failed", "destroyed"}

\* constructed and not successfully destroyed
Live(h) == phase[h] \notin {"none", "destroyed"}

Constructed == {h \in Handles : phase[h] # "none"}

\* client.info, read through a handle
Info(h) == h # 0 /\ phase[h] = "ready"

\* The state of the session as the manager's current handle shows it
SessionState ==
    IF client = 0 THEN "UNINITIALIZED"
    ELSE IF phase[client] = "ready" THEN "AUTHENTICATED"
    ELSE IF phase[client] \in {"disc", "destroyed"} THEN "DISCONNECTED"
    ELSE "AWAITING_QR"

Init ==
    /\ client = 0
    /\ qrCodeString = NoQr
    /\ phase = [h \in Handles |-> "none"]
    /\ recs = <<>>
    /\ req = None
    /\ obs = [kind |-> "load"]

\* initializeWhatsAppClient(): new Client(...), listeners, client.initialize()
initializeWhatsAppClient(h) ==
    /\ h = Cardinality(Constructed) + 1
    /\ h \in Handles
    /\ client' = h
    /\ phase' = [phase EXCEPT ![h] = "unauth"]

\* src/index.js:135, the call at module load
Startup ==
    /\ client = 0
    /\ \E h \in Handles : initializeWhatsAppClient(h)
    /\ obs' = [kind |-> "startup"]
    /\ UNCHANGED <<qrCodeString, recs, req>>

----------------------------------------------------------------------------
(* Events of a client handle.  Every listener is a closure over the module *)
(* globals: it reads and writes `client` and `qrCodeString`, whichever     *)
(* handle it was attached to.                                              *)

\* a `qr` listener that keeps the payload it already holds
OnQr_KeepsFirst(h, qr) ==
    /\ phase[h] \in {"unauth", "disc"}
    /\ qrCodeString' = IF qrCodeString # NoQr THEN qrCodeString ELSE qr
    /\ obs' = [kind |-> "qr", h |-> h, st |-> SessionState, qr |-> qr,
               prev |-> qrCodeString]
    /\ UNCHANGED <<client, phase, recs, req>>

\* client.on('qr'): a handle that is not authenticated shows a new QR code
OnQr(h, qr) ==
    /\ phase[h] \in {"unauth", "disc"}
    /\ qrCodeString' = qr
    /\ obs' = [kind |-> "qr", h |-> h, st |-> SessionState, qr |-> qr,
               prev |-> qrCodeString]
    /\ UNCHANGED <<client, phase, recs, req>>

\* a `ready` listener that forgets to clear the stored payload
OnReady_KeepsQr(h) ==
    /\ phase[h] = "unauth"
    /\ phase' = [phase EXCEPT ![h] = "ready"]
    /\ obs' = [kind |-> "ready", h |-> h, st |-> SessionState]
    /\ UNCHANGED <<client, qrCodeString, recs, req>>

\* client.on('ready')
OnReady(h) ==
    /\ phase[h] = "unauth"
    /\ phase' = [phase EXCEPT ![h] = "ready"]
    /\ qrCodeString' = NoQr
    /\ obs' = [kind |-> "ready", h |-> h, st |-> SessionState]
    /\ UNCHANGED <<client, recs, req>>

\* an `auth_failure` listener that restarts the client as `disconnected` does
OnAuthFailure_Restarts(h) ==
    /\ phase[h] = "unauth"
    /\ Cardinality(Constructed) + Len(recs) < MaxHandles
    /\ qrCodeString' = NoQr
    /\ recs' = Append(recs, [by |-> h, target |-> client, pc |-> "destroying",
                              failed |-> FALSE])
    /\ obs' = [kind |-> "auth_failure", h |-> h, st |-> SessionState]
    /\ UNCHANGED <<client, phase, req>>

\* client.on('auth_failure')
OnAuthFailure(h) ==
    /\ phase[h] = "unauth"
    /\ qrCodeString' = NoQr
    /\ obs' = [kind |-> "auth_failure", h |-> h, st |-> SessionState]
    /\ UNCHANGED <<client, phase, recs, req>>

\* a `disconnected` listener that acts only when the session is authenticated
OnDisconnected_OnlyAuthenticated(h) ==
    /\ phase[h] \in {"unauth", "ready", "disc"}
    /\ Cardinality(Constructed) + Len(recs) < MaxHandles
    /\ phase' = [phase EXCEPT ![h] = "disc"]
    /\ obs' = [kind |-> "disconnected", h |-> h, st |-> SessionState,
               target |-> client]
    /\ IF SessionState = "AUTHENTICATED"
       THEN /\ qrCodeString' = NoQr
            /\ recs' = Append(recs, [by |-> h, target |-> client,
                                     pc |-> "destroying", failed |-> FALSE])
       ELSE UNCHANGED <<qrCodeString, recs>>
    /\ UNCHANGED <<client, req>>

\* client.on('disconnected'), up to its first await: the QR payload is
\* cleared and destroy() is called on the handle the global names
OnDisconnected(h) ==
    /\ phase[h] \in {"unauth", "ready", "disc"}
    /\ Cardinality(Constructed) + Len(recs) < MaxHandles
    /\ phase' = [phase EXCEPT ![h] = "disc"]
    /\ qrCodeString' = NoQr
    /\ recs' = Append(recs, [by |-> h, target |-> client, pc |-> "destroying",
                              failed |-> FALSE])
    /\ obs' = [kind |-> "disconnected", h |-> h, st |-> SessionState,
               target |-> client]
    /\ UNCHANGED <<client, req>>

\* `await client.destroy()` resolves: the target handle is gone; the
\* handler goes on to the delay
DestroyResolves(i) ==
    /\ i \in 1..Len(recs)
    /\ recs[i].pc = "destroying"
    /\ phase' = [phase EXCEPT ![recs[i].target] = "destroyed"]
    /\ recs' = [recs EXCEPT ![i].pc = "waiting"]
    /\ obs' = [kind |-> "destroyed", h |-> recs[i].target]
    /\ UNCHANGED <<client, qrCodeString, req>>

Remove(seq, i) == SubSeq(seq, 1, i - 1) \o SubSeq(seq, i + 1, Len(seq))

\* a handler without the try/catch: the rejection ends it
DestroyRejects_Aborts(i) ==
    /\ i \in 1..Len(recs)
    /\ recs[i].pc = "destroying"
    /\ recs' = Remove(recs, i)
    /\ obs' = [kind |-> "destroy_failed", h |-> recs[i].target]
    /\ UNCHANGED <<client, qrCodeString, phase, req>>

\* `await client.destroy()` rejects: caught and logged, the handle keeps
\* whatever it held; the handler goes on to the delay
DestroyRejects(i) ==
    /\ i \in 1..Len(recs)
    /\ recs[i].pc = "destroying"
    /\ recs' = [recs EXCEPT ![i].pc = "waiting", ![i].failed = TRUE]
    /\ obs' = [kind |-> "destroy_failed", h |-> recs[i].target]
    /\ UNCHANGED <<client, qrCodeString, phase, req>>

\* a handler that ends after the delay without recreating the client
TimerFires_NoRecreate(i) ==
    /\ i \in 1..Len(recs)
    /\ recs[i].pc = "waiting"
    /\ recs' = Remove(recs, i)
    /\ obs' = [kind |-> "recreated", h |-> client, by |-> recs[i].by,
               prev |-> client, target |-> recs[i].target,
               failed |-> recs[i].failed]
    /\ UNCHANGED <<client, phase, qrCodeString, req>>

\* the 5 s timer fires: initializeWhatsAppClient() and the handler ends
TimerFires(i) ==
    /\ i \in 1..Len(recs)
    /\ recs[i].pc = "waiting"
    /\ \E h \in Handles : initializeWhatsAppClient(h)
    /\ recs' = Remove(recs, i)
    /\ obs' = [kind |-> "recreated", h |-> client', by |-> recs[i].by,
               prev |-> client, target |-> recs[i].target,
               failed |-> recs[i].failed]
    /\ UNCHANGED <<qrCodeString, req>>

\* the promise of client.initialize() rejects.  Nothing awaits or catches
\* it (src/index.js:130): no code of the program runs.
InitializeRejects(h) ==
    /\ phase[h] = "unauth"
    /\ phase' = [phase EXCEPT ![h] = "failed"]
    /\ obs' = [kind |-> "initialize_failed", h |-> h]
    /\ UNCHANGED <<client, qrCodeString, recs, req>>

----------------------------------------------------------------------------
(* Inbound messages *)

MsgBodies == {<<>>, <<"H","i">>, S_time}
Messages == [from : Senders, body : MsgBodies, fromMe : BOOLEAN, isStatus : BOOLEAN]

\* a listener whose filter looks at fromMe only
OnMessage_NoStatusFilter(h, message, now) ==
    /\ phase[h] = "ready"
    /\ obs' = [kind |-> "message", h |-> h, message |-> message,
               calls |-> IF message.fromMe THEN 0
                         ELSE IF message.body # <<>> THEN 1 ELSE 0,
               sends |-> IF message.fromMe THEN <<>>
                         ELSE IF message.body # <<>>
                              THEN <<[on |-> client, to |-> message.from,
                                      text |-> getBotResponse(message.body, now)]>>
                              ELSE <<>>]
    /\ UNCHANGED <<client, qrCodeString, phase, recs, req>>

\* a listener that computes the reply and never sends it
OnMessage_NoSend(h, message, now) ==
    /\ phase[h] = "ready"
    /\ obs' = [kind |-> "message", h |-> h, message |-> message,
               calls |-> IF message.fromMe \/ message.isStatus THEN 0
                         ELSE IF message.body # <<>> THEN 1 ELSE 0,
               sends |-> <<>>]
    /\ UNCHANGED <<client, qrCodeString, phase, recs, req>>

\* client.on('message'): obs records the invocations of getBotResponse and
\* the sendMessage calls (on which handle, to whom, what) of this delivery
OnMessage(h, message, now) ==
    /\ phase[h] = "ready"
    /\ obs' = [kind |-> "message", h |-> h, message |-> message,
               calls |-> IF message.fromMe \/ message.isStatus THEN 0
                         ELSE IF message.body # <<>> THEN 1 ELSE 0,
               sends |-> IF message.fromMe \/ message.isStatus THEN <<>>
                         ELSE IF message.body # <<>>
                              THEN <<[on |-> client, to |-> message.from,
                                      text |-> getBotResponse(message.body, now)]>>
                              ELSE <<>>]
    /\ UNCHANGED <<client, qrCodeString, phase, recs, req>>

----------------------------------------------------------------------------
(* HTTP routes.  The server listens once the module is loaded.  A handler  *)
(* that awaits qrcodeLib.toDataURL is split at the await.  Every response  *)
(* carries the session state and the payload that were there when the      *)
(* request arrived (st0, qr0).                                             *)

\* qrcodeLib.toDataURL
toDataURL(qr) == [png |-> qr]

Response(route, code, status, st0, qr0, fields) ==
    [kind |-> "response", route |-> route, code |-> code, status |-> status,
     st0 |-> st0, qr0 |-> qr0, fields |-> fields]

\* a health route that cannot run while a `disconnected` handler is
\* suspended (a delay that blocks the event loop)
GetHealth_BlockedByRecovery ==
    /\ client # 0
    /\ recs = <<>>
    /\ obs' = Response("/health", 200, "OK", SessionState, qrCodeString, <<>>)
    /\ UNCHANGED <<client, qrCodeString, phase, recs, req>>

\* a health route that reports the session instead of the process
GetHealth_ReportsSession ==
    /\ client # 0
    /\ obs' = IF Info(client)
              THEN Response("/health", 200, "OK", SessionState, qrCodeString, <<>>)
              ELSE Response("/health", 503, "DOWN", SessionState, qrCodeString, <<>>)
    /\ UNCHANGED <<client, qrCodeString, phase, recs, req>>

\* app.get('/health')
GetHealth ==
    /\ client # 0
    /\ obs' = Response("/health", 200, "OK", SessionState, qrCodeString, <<>>)
    /\ UNCHANGED <<client, qrCodeString, phase, recs, req>>

\* app.get('/get-qr') up to its response or to the await
GetQr ==
    /\ client # 0
    /\ IF Info(client)
       THEN /\ obs' = Response("/get-qr", 200, "connected", SessionState,
                               qrCodeString, <<>>)
            /\ req' = req
       ELSE IF qrCodeString # NoQr
       THEN /\ req = None
            /\ req' = [pc |-> "get-qr", arg |-> qrCodeString, st0 |-> SessionState]
            /\ obs' = [kind |-> "await", route |-> "/get-qr"]
       ELSE /\ obs' = Response("/get-qr", 202, "initializing", SessionState,
                               qrCodeString, <<>>)
            /\ req' = req
    /\ UNCHANGED <<client, qrCodeString, phase, recs>>

\* app.get('/get-qr') after the await: the image was rendered
GetQrRendered ==
    /\ req.pc = "get-qr"
    /\ obs' = Response("/get-qr", 200, "waiting_for_scan", req.st0, req.arg,
                       [qr_code_data_url |-> toDataURL(req.arg),
                        qr_code_string |-> qrCodeString])
    /\ req' = None
    /\ UNCHANGED <<client, qrCodeString, phase, recs>>

\* a handler without the try/catch answering as if the image were there
GetQrRenderFails_Answers200 ==
    /\ req.pc = "get-qr"
    /\ obs' = Response("/get-qr", 200, "waiting_for_scan", req.st0, req.arg,
                       [qr_code_data_url |-> toDataURL(req.arg),
                        qr_code_string |-> qrCodeString])
    /\ req' = None
    /\ UNCHANGED <<client, qrCodeString, phase, recs>>

\* a catch block that drops the payload it could not render
GetQrRenderFails_ClearsQr ==
    /\ req.pc = "get-qr"
    /\ obs' = Response("/get-qr", 500, "error", req.st0, req.arg, <<>>)
    /\ req' = None
    /\ qrCodeString' = NoQr
    /\ UNCHANGED <<client, phase, recs>>

\* app.get('/get-qr') after the await: toDataURL threw
GetQrRenderFails ==
    /\ req.pc = "get-qr"
    /\ obs' = Response("/get-qr", 500, "error", req.st0, req.arg, <<>>)
    /\ req' = None
    /\ UNCHANGED <<client, qrCodeString, phase, recs>>

\* src/index.js:145, the status line before the QR is looked at
StatusLine(h) == IF Info(h) THEN "Ready (Connected as: pushname)"
                 ELSE "Initializing/Waiting for QR Scan"

\* src/index.js:188, the class of the status paragraph
StatusClass(h) == IF Info(h) THEN "status-ready" ELSE "status-wait"

\* res.send of the page: the class reads client.info when the page is sent
Page(status, st0, qr0, qrHtml) ==
    Response("/", 200, status, st0, qr0,
             [class |-> StatusClass(client), qrHtml |-> qrHtml])

\* app.get('/') up to its response or to the await
GetHome ==
    /\ client # 0
    /\ IF qrCodeString # NoQr
       THEN /\ req = None
            /\ req' = [pc |-> "home", arg |-> qrCodeString, st0 |-> SessionState,
                       status |-> StatusLine(client)]
            /\ obs' = [kind |-> "await", route |-> "/"]
       ELSE /\ obs' = Page(StatusLine(client), SessionState, qrCodeString,
                           [kind |-> "none"])
            /\ req' = req
    /\ UNCHANGED <<client, qrCodeString, phase, recs>>

\* app.get('/') after the await: the image was rendered
GetHomeRendered ==
    /\ req.pc = "home"
    /\ obs' = Page("Waiting for QR Scan (Image Displayed)", req.st0, req.arg,
                   [kind |-> "img", src |-> toDataURL(req.arg)])
    /\ req' = None
    /\ UNCHANGED <<client, qrCodeString, phase, recs>>

\* app.get('/') after the await: toDataURL threw
GetHomeRenderFails ==
    /\ req.pc = "home"
    /\ obs' = Page(req.status, req.st0, req.arg, [kind |-> "error"])
    /\ req' = None
    /\ UNCHANGED <<client, qrCodeString, phase, recs>>

Http ==
    \/ GetHealth
    \/ GetQr
    \/ GetQrRendered
    \/ GetQrRenderFails
    \/ GetHome
    \/ GetHomeRendered
    \/ GetHomeRenderFails

Lifecycle ==
    \/ Startup
    \/ \E h \in Handles, qr \in Payloads : OnQr(h, qr)
    \/ \E h \in Handles : OnReady(h)
    \/ \E h \in Handles : OnAuthFailure(h)
    \/ \E h \in Handles : OnDisconnected(h)
    \/ \E i \in Handles : DestroyResolves(i)
    \/ \E i \in Handles : DestroyRejects(i)
    \/ \E i \in Handles : TimerFires(i)
    \/ \E h \in Handles : InitializeRejects(h)

Next ==
    \/ Lifecycle
    \/ \E h \in Handles, m \in Messages, now \in Times : OnMessage(h, m, now)
    \/ Http

Spec == Init /\ [][Next]_vars

\* The destroy promise settles and the timer fires: the event loop runs
\* every callback that is due.
FairSpec ==
    /\ Spec
    /\ WF_vars(\E i \in Handles : DestroyResolves(i) \/ DestroyRejects(i))
    /\ WF_vars(\E i \in Handles : TimerFires(i))

----------------------------------------------------------------------------
(* The reply engine on its own: getBotResponse applied to inputs built     *)
(* from fragments that hit every rule, in mixed case and with blanks       *)

Frags == { <<"H","i">>, <<"h","e","l","l","o">>,
           <<"!","S","T","A","T","U","S">>, <<"O","n","l","i","n","e">>,
           <<"!","t","i","m","e">>, <<"t","h","a","n","k","s">>,
           <<"T","h","a","n","k"," ","y","o","u">>,
           <<"!","H","E","L","P">>, <<" ">>, <<"x">> }

RECURSIVE Concat(_)
Concat(fs) == IF fs = <<>> THEN <<>> ELSE Head(fs) \o Concat(Tail(fs))

Inputs == {Concat(fs) : fs \in UNION {[1..n -> Frags] : n \in 0..MaxFrags}}

\* a message and a clock reading are given
ReplyInit ==
    /\ client = 0
    /\ qrCodeString = NoQr
    /\ phase = [h \in Handles |-> "none"]
    /\ recs = <<>>
    /\ req = None
    /\ obs \in {[kind |-> "input", message |-> message, now |-> now] :
                    message \in Inputs, now \in Times}

\* one call of getBotResponse
Reply ==
    /\ obs.kind = "input"
    /\ obs' = [kind |-> "reply", message |-> obs.message, now |-> obs.now,
               out |-> getBotResponse(obs.message, obs.now)]
    /\ UNCHANGED <<client, qrCodeString, phase, recs, req>>

ReplySpec == ReplyInit /\ [][Reply]_vars

----------------------------------------------------------------------------
(* Claims *)

LiveHandles == {h \in Handles : Live(h)}

LifecycleKinds == {"startup", "qr", "ready", "auth_failure", "disconnected",
                   "destroyed", "destroy_failed", "recreated"}

EventKinds == {"qr", "ready", "auth_failure", "disconnected"}

\* C1: in every reachable state at most one handle is live (constructed and
\* not successfully destroyed).
C1_AtMostOneLiveHandle == Cardinality(LiveHandles) <= 1

\* C2: whenever the session is DISCONNECTED it eventually is AWAITING_QR or
\* AUTHENTICATED, however many `disconnected` events came before.
C2_RecoveryLiveness ==
    (SessionState = "DISCONNECTED")
        ~> (SessionState \in {"AWAITING_QR", "AUTHENTICATED"})

\* a recovery that followed two `disconnected` events has just recreated
\* the client
C2_Witness ==
    /\ obs.kind = "recreated"
    /\ client = 3
    /\ SessionState = "AWAITING_QR"

\* C3 (as claimed): after every lifecycle transition the stored payload is
\* non-null if and only if the session is AWAITING_QR.
C3_QrIffAwaitingQr ==
    obs.kind \in LifecycleKinds
        => ((qrCodeString # NoQr) <=> (SessionState = "AWAITING_QR"))

\* C3 (amended): the stored payload is the payload of the event right after
\* a `qr`, and null at startup and right after `ready`, `auth_failure` and
\* `disconnected`: an AWAITING_QR session holds no payload until its first
\* `qr` and again after an `auth_failure`.
C3_QrFollowsLastEvent ==
    /\ obs.kind = "qr" => (qrCodeString = obs.qr /\ qrCodeString # NoQr)
    /\ obs.kind \in {"startup", "ready", "auth_failure", "disconnected"}
           => qrCodeString = NoQr

\* an AWAITING_QR session whose payload an `auth_failure` has just cleared
C3_Witness ==
    /\ obs.kind = "auth_failure"
    /\ obs.st = "AWAITING_QR"
    /\ SessionState = "AWAITING_QR"
    /\ qrCodeString = NoQr

\* the (state, event) pairs of the session state machine
Listed(st, kind) ==
    \/ st = "AWAITING_QR" /\ kind \in {"qr", "ready", "auth_failure"}
    \/ st = "AUTHENTICATED" /\ kind = "disconnected"

\* the step delivers an event in a state the state machine does not list
Unlisted(o, kind) == o.kind = kind /\ ~Listed(o.st, kind)

\* C4 (as claimed): delivering an event in a state the state machine does
\* not list for it changes neither the session state, the stored payload
\* nor the client handle, and starts no recovery.
C4_UnlistedIsNoOp ==
    [][(obs'.kind \in EventKinds /\ ~Listed(obs'.st, obs'.kind))
          => /\ SessionState' = SessionState
             /\ qrCodeString' = qrCodeString
             /\ client' = client
             /\ recs' = recs]_vars

\* C4 (amended): the listeners do not look at the session state.  In a
\* state the state machine does not list, no event changes the client
\* handle, and `qr`, `ready` and `auth_failure` start no recovery; but `qr`
\* stores its payload, `ready` and `auth_failure` clear it, and
\* `disconnected` clears it and starts one recovery.
C4_UnlistedStillHandled ==
    [][/\ (obs'.kind \in EventKinds /\ ~Listed(obs'.st, obs'.kind))
              => client' = client
       /\ Unlisted(obs', "qr") => (recs' = recs /\ qrCodeString' = obs'.qr)
       /\ (Unlisted(obs', "ready") \/ Unlisted(obs', "auth_failure"))
              => (recs' = recs /\ qrCodeString' = NoQr)
       /\ Unlisted(obs', "disconnected")
              => /\ qrCodeString' = NoQr
                 /\ Len(recs') = Len(recs) + 1
                 /\ recs'[Len(recs')].pc = "destroying"]_vars

\* a `disconnected` delivered while AWAITING_QR has started a recovery
C4_Witness ==
    /\ obs.kind = "disconnected"
    /\ obs.st = "AWAITING_QR"
    /\ recs # <<>>
    /\ SessionState = "DISCONNECTED"

\* C5: when initialize() of a client fails, the manager re-enters the
\* recovery protocol (a destroy attempt is started in reaction to it).
C5_InitFailureStartsRecovery ==
    [][obs'.kind = "initialize_failed" => Len(recs') = Len(recs) + 1]_vars

\* C6: GET /get-qr answers `connected` (200) exactly when the session is
\* AUTHENTICATED, `waiting_for_scan` with the QR fields when it is not and
\* a payload is pending, `initializing` (202) when it is not and none is
\* pending, and never `connected` while the session is DISCONNECTED or a
\* recovery is in progress.  (The answer to a request whose image rendering
\* failed is left out of the statement.)
C6_GetQrProjectsSession ==
    (obs.kind = "response" /\ obs.route = "/get-qr" /\ obs.status # "error")
        => /\ (obs.status = "connected") <=> (obs.st0 = "AUTHENTICATED")
           /\ obs.status = "connected" => obs.code = 200
           /\ (obs.st0 # "AUTHENTICATED" /\ obs.qr0 # NoQr)
                  => /\ obs.status = "waiting_for_scan"
                     /\ DOMAIN obs.fields = {"qr_code_data_url", "qr_code_string"}
           /\ (obs.st0 # "AUTHENTICATED" /\ obs.qr0 = NoQr)
                  => (obs.status = "initializing" /\ obs.code = 202)
           /\ obs.status = "connected"
                  => (SessionState # "DISCONNECTED" /\ recs = <<>>)

\* C7: a message with fromMe or isStatus set never reaches getBotResponse
\* and is never answered.
C7_FilteredNeverAnswered ==
    (obs.kind = "message" /\ (obs.message.fromMe \/ obs.message.isStatus))
        => (obs.calls = 0 /\ obs.sends = <<>>)

\* a status broadcast with a text body was delivered and dropped
C7_Witness ==
    /\ obs.kind = "message"
    /\ obs.message.isStatus
    /\ ~obs.message.fromMe
    /\ obs.message.body # <<>>
    /\ obs.calls = 0

\* C8 (as claimed): every message that is neither the bot's own nor a
\* status broadcast invokes getBotResponse once and produces one
\* sendMessage to its sender, whatever its body.
C8_EveryMessageAnswered ==
    (obs.kind = "message" /\ ~obs.message.fromMe /\ ~obs.message.isStatus)
        => /\ obs.calls = 1
           /\ Len(obs.sends) = 1
           /\ obs.sends[1].to = obs.message.from

\* C8 (amended): every message that is neither the bot's own nor a status
\* broadcast and whose body is not empty invokes getBotResponse once and
\* produces one sendMessage to its sender; one with an empty body is
\* dropped without a reply.
C8_NonEmptyMessageAnswered ==
    (obs.kind = "message" /\ ~obs.message.fromMe /\ ~obs.message.isStatus)
        => IF obs.message.body # <<>>
           THEN /\ obs.calls = 1
                /\ Len(obs.sends) = 1
                /\ obs.sends[1].to = obs.message.from
           ELSE obs.calls = 0 /\ obs.sends = <<>>

\* a message delivered by a recreated client was answered
C8_Witness ==
    /\ obs.kind = "message"
    /\ ~obs.message.fromMe /\ ~obs.message.isStatus
    /\ obs.message.body # <<>>
    /\ obs.h > 1
    /\ Len(obs.sends) = 1

\* the rule table: rule i matches the normalized text t
RuleMatches(i, t) ==
    CASE i = 1 -> t = S_hi \/ t = S_hello
      [] i = 2 -> t = S_status \/ includes(t, S_online)
      [] i = 3 -> t = S_time
      [] i = 4 -> includes(t, S_thanks) \/ includes(t, S_thank_you)
      [] i = 5 -> t = S_help
      [] OTHER -> TRUE

\* the rule table: the response of rule i
RuleResponse(i, now) ==
    CASE i = 1 -> Static(R_GREETING)
      [] i = 2 -> Static(R_STATUS)
      [] i = 3 -> [text |-> R_TIME, time |-> now]
      [] i = 4 -> Static(R_THANKS)
      [] i = 5 -> Static(R_HELP)
      [] OTHER -> Static(R_FALLBACK)

Normalized(message) == trim(toLowerCase(message))

\* C9: for every input whose normalized text matches rule i and no earlier
\* rule, getBotResponse returns the response of rule i.
C9_FirstMatchWins ==
    obs.kind = "reply"
        => \A i \in 1..6 :
              (/\ RuleMatches(i, Normalized(obs.message))
               /\ \A j \in 1..(i - 1) : ~RuleMatches(j, Normalized(obs.message)))
                  => obs.out = RuleResponse(i, obs.now)

\* a text containing both "online" and "thanks" got the status string
C9_Witness ==
    /\ obs.kind = "reply"
    /\ includes(Normalized(obs.message), S_online)
    /\ includes(Normalized(obs.message), S_thanks)
    /\ obs.out = Static(R_STATUS)

\* C10: no step of an HTTP handler changes the stored payload, the session
\* state or the client handle.
C10_HttpReadOnly ==
    [][obs'.kind \in {"response", "await"}
          => /\ qrCodeString' = qrCodeString
             /\ SessionState' = SessionState
             /\ client' = client
             /\ phase' = phase
             /\ recs' = recs]_vars

\* GET /get-qr has answered 500 and the payload it could not render is
\* still stored
C10_Witness ==
    /\ obs.kind = "response"
    /\ obs.route = "/get-qr"
    /\ obs.code = 500
    /\ qrCodeString = obs.qr0
    /\ qrCodeString # NoQr

\* a recovery is suspended in its destroy attempt or in its delay
InRecovery == recs # <<>>

\* C11: a `waiting_for_scan` answer of GET /get-qr carries a non-null
\* qr_code_string, and its qr_code_data_url is the rendering of that string,
\* whatever was delivered while the handler was rendering.
C11_GetQrSnapshot ==
    (obs.kind = "response" /\ obs.route = "/get-qr"
        /\ obs.status = "waiting_for_scan")
        => /\ obs.fields.qr_code_string # NoQr
           /\ obs.fields.qr_code_data_url = toDataURL(obs.fields.qr_code_string)

\* C12: while a recovery is suspended, the three routes accept a request,
\* and a handler that is rendering can finish and answer.
C12_HttpServedDuringRecovery ==
    InRecovery
        => /\ ENABLED GetHealth
           /\ req = None => (ENABLED GetQr /\ ENABLED GetHome)
           /\ req.pc = "get-qr" => ENABLED (GetQrRendered \/ GetQrRenderFails)
           /\ req.pc = "home" => ENABLED (GetHomeRendered \/ GetHomeRenderFails)

\* GET /health was answered while a recovery was in its settling delay
C12_Witness ==
    /\ obs.kind = "response"
    /\ obs.route = "/health"
    /\ \E i \in 1..Len(recs) : recs[i].pc = "waiting"

\* C13: once the server listens, GET /health can be answered in every
\* state, and every answer is 200 "OK".
C13_HealthUnconditional ==
    /\ client # 0 => ENABLED GetHealth
    /\ (obs.kind = "response" /\ obs.route = "/health")
           => (obs.code = 200 /\ obs.status = "OK")

\* GET /health answered "OK" while the session was DISCONNECTED
C13_Witness ==
    /\ obs.kind = "response"
    /\ obs.route = "/health"
    /\ obs.status = "OK"
    /\ obs.st0 = "DISCONNECTED"
    /\ SessionState = "DISCONNECTED"

\* C14: every construction of a handle other than the first follows a
\* completed destroy attempt on the previous handle (the one the global
\* named until then) and the delay, the previous handle is destroyed by
\* then, and initialize() is called on the new handle.
C14_DestroyedBeforeRecreated ==
    obs.kind = "recreated"
        => /\ obs.target = obs.prev
           /\ phase[obs.prev] = "destroyed"
           /\ client = obs.h
           /\ obs.h # obs.prev
           /\ phase[obs.h] = "unauth"

\* C15: a recovery whose destroy() threw still ends by constructing a new
\* client and calling initialize() on it.
C15_DestroyErrorSwallowed ==
    (obs.kind = "destroy_failed")
        ~> (/\ obs.kind = "recreated"
            /\ obs.failed
            /\ client = obs.h
            /\ obs.h # obs.prev
            /\ phase[client] = "unauth")

\* a recovery whose destroy() threw has just recreated the client
C15_Witness ==
    /\ obs.kind = "recreated"
    /\ obs.failed
    /\ client = obs.h
    /\ phase[client] = "unauth"
    /\ Live(obs.prev)

\* C16: an `auth_failure` event clears the stored payload and changes
\* nothing else: the client handle is the same, no handle is destroyed or
\* constructed, no recovery is started, and a session that was AWAITING_QR
\* is still AWAITING_QR.
C16_AuthFailureIsLocal ==
    [][obs'.kind = "auth_failure"
          => /\ qrCodeString' = NoQr
             /\ client' = client
             /\ phase' = phase
             /\ recs' = recs
             /\ obs'.st = "AWAITING_QR" => SessionState' = "AWAITING_QR"]_vars

\* an `auth_failure` of the current handle, with no recovery in flight
C16_Witness ==
    /\ obs.kind = "auth_failure"
    /\ obs.h = client
    /\ SessionState = "AWAITING_QR"
    /\ recs = <<>>
    /\ LiveHandles = {client}

\* C17: right after a `qr` event delivered while AWAITING_QR the stored
\* payload is the payload of that event, whatever was stored before, and
\* the session is still AWAITING_QR.
C17_LatestQrStored ==
    (obs.kind = "qr" /\ obs.st = "AWAITING_QR")
        => /\ qrCodeString = obs.qr
           /\ obs.qr \in Payloads
           /\ SessionState = "AWAITING_QR"

\* a second `qr` event has replaced the payload of the first
C17_Witness ==
    /\ obs.kind = "qr"
    /\ obs.st = "AWAITING_QR"
    /\ obs.prev = "qrA"
    /\ obs.qr = "qrB"
    /\ qrCodeString = "qrB"

\* C18: the response to an input is the response to its normalized text
\* (lower-cased and trimmed) at the same clock reading, so inputs that
\* differ only in case or in surrounding blanks get the same response.
C18_DependsOnNormalizedText ==
    obs.kind = "reply"
        => obs.out = getBotResponse(Normalized(obs.message), obs.now)

\* "!HELP " got the command listing
C18_Witness ==
    /\ obs.kind = "reply"
    /\ obs.message = <<"!","H","E","L","P"," ">>
    /\ obs.out = Static(R_HELP)

\* the last step answered a request whose image could not be rendered
RenderFailureAnswered ==
    /\ obs.kind = "response"
    /\ \/ obs.route = "/get-qr" /\ obs.status = "error"
       \/ obs.route = "/" /\ obs.fields.qrHtml.kind = "error"

\* C19: when rendering fails, GET /get-qr answers 500 and GET / answers a
\* page with the inline error; the step changes neither the stored payload
\* nor the session and leaves no handler suspended, so that a request
\* arriving next is rendered from the same payload.
C19_RenderFailureIsRequestLocal ==
    /\ [][/\ GetQrRenderFails
               => /\ obs'.route = "/get-qr"
                  /\ obs'.code = 500
                  /\ obs'.status = "error"
          /\ GetHomeRenderFails
               => /\ obs'.route = "/"
                  /\ obs'.code = 200
                  /\ obs'.fields.qrHtml = [kind |-> "error"]
          /\ (GetQrRenderFails \/ GetHomeRenderFails)
               => /\ qrCodeString' = qrCodeString
                  /\ SessionState' = SessionState
                  /\ client' = client
                  /\ req' = None]_vars
    /\ []((RenderFailureAnswered /\ qrCodeString # NoQr)
            => /\ ENABLED (GetHome /\ req'.pc = "home" /\ req'.arg = qrCodeString)
               /\ ~Info(client)
                    => ENABLED (GetQr /\ req'.pc = "get-qr"
                                      /\ req'.arg = qrCodeString))

\* GET / has answered the page with the inline error and the payload it
\* could not render is still stored
C19_Witness ==
    /\ obs.kind = "response"
    /\ obs.route = "/"
    /\ obs.fields.qrHtml.kind = "error"
    /\ qrCodeString = obs.qr0
    /\ qrCodeString # NoQr

\* C20: the handle on which a `disconnected` handler calls destroy() is the
\* handle that emitted the event, so a disconnect reported by an old handle
\* (or twice by one handle) never destroys a handle of a later recovery.
C20_DestroysEmitter ==
    /\ obs.kind = "disconnected" => obs.target = obs.h
    /\ \A i \in 1..Len(recs) : recs[i].target = recs[i].by

\* C21: a stored payload that is not null was emitted by the current client
\* handle: after every step it has either just been stored by a `qr` event
\* of the current handle, or it was already stored and the current handle
\* has not been replaced.
C21_QrFromCurrentHandle ==
    [][qrCodeString' # NoQr
         => \/ obs'.kind = "qr" /\ obs'.h = client' /\ obs'.qr = qrCodeString'
            \/ qrCodeString' = qrCodeString /\ client' = client
                 /\ obs'.kind # "qr"]_vars

\* C22: sendMessage is invoked on the handle that delivered the message,
\* and that handle is authenticated and not destroyed.
C22_SendsOnDeliveringHandle ==
    (obs.kind = "message" /\ obs.calls > 0)
        => \A i \in 1..Len(obs.sends) :
              /\ obs.sends[i].on = obs.h
              /\ phase[obs.sends[i].on] = "ready"
=============================================================================
